---- MODULE Spec2Model ----
(***************************************************************************)
(* Model of package mgo (src/mongo.go): the DB handle, a wrapper that      *)
(* turns each of its methods into one or two calls of the MongoDB Go       *)
(* driver on a collection of the bound database.                           *)
(*                                                                         *)
(* The state is the datastore the handle is connected to (the documents    *)
(* and the secondary indexes of each collection, the cursors the server    *)
(* holds open) and a record of the last method call: its arguments, what   *)
(* it returned and the driver calls it issued.  Every method is one        *)
(* action; the driver calls it makes are operators (Drv...) that follow    *)
(* the driver's documented behaviour, each with an input that makes the    *)
(* call fail with a connection error.                                      *)
(*                                                                         *)
(* Documents are {_id, name}; a filter is bson.D{} (all documents), an     *)
(* equality on _id or an equality on name; an update document is           *)
(* {$set: {name: n}}; the write models of a bulk write are InsertOneModel  *)
(* and DeleteOneModel.  Methods are called one at a time, on one           *)
(* collection of the bound database.  Close, DropIndexes and               *)
(* GetCollectionNames are left out.                                        *)
(***************************************************************************)
EXTENDS Integers, Sequences, FiniteSets, TLC

\* Bound of the model: the longest slice passed to InsertItems, ReplaceAll,
\* BulkWrite and CreateIndices.
MaxBatch == 2

Colls == {"items"}
Ids == {1, 2}
Names == {"a", "b"}
Fields == {"name"}

Docs == [id : Ids, name : Names]
NoDoc == [id |-> 0, name |-> ""]

\* bson.D{} and the two equality filters.
AllFilter == [kind |-> "all", id |-> 0, name |-> ""]
ById(i) == [kind |-> "id", id |-> i, name |-> ""]
ByName(n) == [kind |-> "name", id |-> 0, name |-> n]
Filters == {AllFilter} \cup {ById(i) : i \in Ids} \cup {ByName(n) : n \in Names}

Matches(f, d) ==
    CASE f.kind = "all" -> TRUE
      [] f.kind = "id" -> d.id = f.id
      [] OTHER -> d.name = f.name

\* type Index struct {Collection, Field, Unique, Sparse}
Index == [Collection : Colls, Field : Fields, Unique : BOOLEAN, Sparse : BOOLEAN]

\* What the server keeps of an index on one field.
NoIndex == [present |-> FALSE, unique |-> FALSE, sparse |-> FALSE]
IndexOpts(u, s) == [present |-> TRUE, unique |-> u, sparse |-> s]

\* mongo.WriteModel: InsertOneModel{doc} or DeleteOneModel{filter}.  The
\* batches are made of the inserts of every document and of one delete.
InsertModel(d) == [kind |-> "insert", doc |-> d, filter |-> AllFilter]
DeleteModel(f) == [kind |-> "delete", doc |-> NoDoc, filter |-> f]
Models == {InsertModel(d) : d \in Docs} \cup {DeleteModel(ById(1))}

SeqsUpTo(S, n) == UNION {[1..k -> S] : k \in 0..n}
Range(s) == {s[i] : i \in 1..Len(s)}
Ident(n) == [i \in 1..n |-> i]

VARIABLES
    docs,       \* docs[c]: the documents of collection c, in natural (insertion) order
    indexes,    \* indexes[c][f]: the index of collection c on field f
    cursors,    \* number of cursors open on the server
    last        \* the last method call and its outcome

vars == <<docs, indexes, cursors, last>>

\* One driver call in the trace of a method: the driver function and its error.
Call(fn, err) == [fn |-> fn, err |-> err]

\* ------------------------------------------------------------------ driver

FirstMatch(ds, f) ==
    IF \E i \in 1..Len(ds) : Matches(f, ds[i])
    THEN CHOOSE i \in 1..Len(ds) :
            Matches(f, ds[i]) /\ \A j \in 1..(i - 1) : ~Matches(f, ds[j])
    ELSE 0

RemoveAt(ds, i) == [j \in 1..(Len(ds) - 1) |-> IF j < i THEN ds[j] ELSE ds[j + 1]]

NameUnique(ix) == ix["name"].present /\ ix["name"].unique

\* A document that the unique indexes (_id always, name when indexed unique)
\* refuse next to the documents ds, position skip left out.
Duplicate(ds, ix, d, skip) ==
    \E i \in 1..Len(ds) :
        /\ i # skip
        /\ \/ ds[i].id = d.id
           \/ NameUnique(ix) /\ ds[i].name = d.name

\* Collection.InsertOne
DrvInsertOne(ds, ix, d, fault) ==
    IF fault THEN [docs |-> ds, err |-> "net"]
    ELSE IF Duplicate(ds, ix, d, 0) THEN [docs |-> ds, err |-> "dup"]
    ELSE [docs |-> Append(ds, d), err |-> "nil"]

RECURSIVE InsertOrdered(_, _, _)
InsertOrdered(ds, ix, data) ==
    IF data = <<>> THEN [docs |-> ds, err |-> "nil"]
    ELSE IF Duplicate(ds, ix, Head(data), 0) THEN [docs |-> ds, err |-> "dup"]
    ELSE InsertOrdered(Append(ds, Head(data)), ix, Tail(data))

\* Collection.InsertMany with the default options (ordered): an empty slice
\* is refused by the driver; the documents before the first refused one stay.
DrvInsertMany(ds, ix, data, fault) ==
    IF data = <<>> THEN [docs |-> ds, err |-> "empty"]
    ELSE IF fault THEN [docs |-> ds, err |-> "net"]
    ELSE InsertOrdered(ds, ix, data)

\* Collection.DeleteOne
DrvDeleteOne(ds, f, fault) ==
    IF fault THEN [docs |-> ds, err |-> "net"]
    ELSE IF FirstMatch(ds, f) = 0 THEN [docs |-> ds, err |-> "nil"]
    ELSE [docs |-> RemoveAt(ds, FirstMatch(ds, f)), err |-> "nil"]

\* Collection.DeleteMany
DrvDeleteMany(ds, f, fault) ==
    IF fault THEN [docs |-> ds, err |-> "net"]
    ELSE [docs |-> SelectSeq(ds, LAMBDA d : ~Matches(f, d)), err |-> "nil"]

UpdResult(ds, err, matched, modified) ==
    [docs |-> ds, err |-> err, matched |-> matched, modified |-> modified]

\* Collection.UpdateOne with {$set: {name: n}}
DrvUpdateOne(ds, ix, f, n, fault) ==
    LET i == FirstMatch(ds, f) IN
    IF fault THEN UpdResult(ds, "net", 0, 0)
    ELSE IF i = 0 THEN UpdResult(ds, "nil", 0, 0)
    ELSE IF ds[i].name = n THEN UpdResult(ds, "nil", 1, 0)
    ELSE IF Duplicate(ds, ix, [id |-> ds[i].id, name |-> n], i)
         THEN UpdResult(ds, "dup", 0, 0)
    ELSE UpdResult([ds EXCEPT ![i].name = n], "nil", 1, 1)

RECURSIVE UpdateFrom(_, _, _, _, _, _, _)
UpdateFrom(ds, ix, f, n, i, matched, modified) ==
    IF i > Len(ds) THEN UpdResult(ds, "nil", matched, modified)
    ELSE IF ~Matches(f, ds[i]) THEN UpdateFrom(ds, ix, f, n, i + 1, matched, modified)
    ELSE IF ds[i].name = n THEN UpdateFrom(ds, ix, f, n, i + 1, matched + 1, modified)
    ELSE IF Duplicate(ds, ix, [id |-> ds[i].id, name |-> n], i)
         THEN UpdResult(ds, "dup", matched, modified)
    ELSE UpdateFrom([ds EXCEPT ![i].name = n], ix, f, n, i + 1, matched + 1, modified + 1)

\* Collection.UpdateMany with {$set: {name: n}}: the documents are updated
\* one by one, and those updated before a refused one stay updated.
DrvUpdateMany(ds, ix, f, n, fault) ==
    IF fault THEN UpdResult(ds, "net", 0, 0)
    ELSE UpdateFrom(ds, ix, f, n, 1, 0, 0)

\* Collection.ReplaceOne, with or without the upsert option.  The _id of a
\* document cannot be changed, neither from the matched document's nor, on
\* an upsert, from the one the filter asks for.
DrvReplaceOne(ds, ix, f, d, upsert, fault) ==
    LET i == FirstMatch(ds, f) IN
    IF fault THEN [docs |-> ds, err |-> "net"]
    ELSE IF i = 0 THEN
        IF ~upsert THEN [docs |-> ds, err |-> "nil"]
        ELSE IF f.kind = "id" /\ f.id # d.id THEN [docs |-> ds, err |-> "immutable"]
        ELSE IF Duplicate(ds, ix, d, 0) THEN [docs |-> ds, err |-> "dup"]
        ELSE [docs |-> Append(ds, d), err |-> "nil"]
    ELSE IF ds[i].id # d.id THEN [docs |-> ds, err |-> "immutable"]
    ELSE IF Duplicate(ds, ix, d, i) THEN [docs |-> ds, err |-> "dup"]
    ELSE [docs |-> [ds EXCEPT ![i] = d], err |-> "nil"]

\* Collection.FindOne(...).Decode: the first match, mongo.ErrNoDocuments
\* without one, a decoding error when the target does not fit.
DrvFindOne(ds, f, fault, fits) ==
    IF fault THEN [doc |-> NoDoc, err |-> "net"]
    ELSE IF FirstMatch(ds, f) = 0 THEN [doc |-> NoDoc, err |-> "nodocs"]
    ELSE IF ~fits THEN [doc |-> NoDoc, err |-> "decode"]
    ELSE [doc |-> ds[FirstMatch(ds, f)], err |-> "nil"]

\* Collection.Find: a cursor over the matches, or an error and no cursor.
DrvFind(ds, f, fault) ==
    IF fault THEN [batch |-> <<>>, err |-> "net", cursor |-> FALSE]
    ELSE [batch |-> SelectSeq(ds, LAMBDA d : Matches(f, d)), err |-> "nil", cursor |-> TRUE]

\* Cursor.All: every document of the cursor decoded into the target, or a
\* decoding error.  (That All releases the cursor itself is not relied on.)
DrvAll(batch, fits) ==
    IF fits THEN [resp |-> batch, err |-> "nil"] ELSE [resp |-> <<>>, err |-> "decode"]

\* Cursor.Close: the cursor is released.
DrvClose(open) == IF open > 0 THEN open - 1 ELSE 0

\* Collection.BulkWrite.  The driver sends an ordered batch in the order
\* given and stops at the first write error; it sends an unordered batch
\* grouped by kind of model, the inserts before the deletes, and goes on
\* after a write error.  An empty batch is refused.
ExecOrder(models, ordered) ==
    IF ordered THEN Ident(Len(models))
    ELSE SelectSeq(Ident(Len(models)), LAMBDA i : models[i].kind = "insert")
         \o SelectSeq(Ident(Len(models)), LAMBDA i : models[i].kind = "delete")

WriteOne(ds, ix, m) ==
    IF m.kind = "insert" THEN DrvInsertOne(ds, ix, m.doc, FALSE)
    ELSE DrvDeleteOne(ds, m.filter, FALSE)

RECURSIVE BulkRun(_, _, _, _, _, _, _)
BulkRun(ds, ix, models, order, ordered, applied, failed) ==
    IF order = <<>> THEN [docs |-> ds, applied |-> applied, failed |-> failed]
    ELSE LET i == Head(order)
             r == WriteOne(ds, ix, models[i])
         IN  IF r.err = "nil"
             THEN BulkRun(r.docs, ix, models, Tail(order), ordered, applied \cup {i}, failed)
             ELSE IF ordered
             THEN [docs |-> ds, applied |-> applied, failed |-> failed \cup {i}]
             ELSE BulkRun(ds, ix, models, Tail(order), ordered, applied, failed \cup {i})

DrvBulkWrite(ds, ix, models, ordered, fault) ==
    IF models = <<>> THEN [docs |-> ds, err |-> "empty", applied |-> {}, failed |-> {}]
    ELSE IF fault THEN [docs |-> ds, err |-> "net", applied |-> {}, failed |-> {}]
    ELSE LET r == BulkRun(ds, ix, models, ExecOrder(models, ordered), ordered, {}, {})
         IN  [docs |-> r.docs, err |-> IF r.failed = {} THEN "nil" ELSE "bulk",
              applied |-> r.applied, failed |-> r.failed]

\* Two documents with the same value of the field: a unique index cannot be built.
HasDuplicates(ds) ==
    \E i, j \in 1..Len(ds) : i # j /\ ds[i].name = ds[j].name

\* IndexView.CreateOne with Keys {field: 1}: a new index is built; one that
\* exists with the same options is left as it is, without error; one that
\* exists with other options makes the call fail.
DrvCreateOne(ds, ix, field, unique, sparse, fault) ==
    IF fault THEN [idx |-> ix, err |-> "net"]
    ELSE IF ~ix[field].present THEN
        IF unique /\ HasDuplicates(ds) THEN [idx |-> ix, err |-> "dup"]
        ELSE [idx |-> [ix EXCEPT ![field] = IndexOpts(unique, sparse)], err |-> "nil"]
    ELSE IF ix[field] = IndexOpts(unique, sparse) THEN [idx |-> ix, err |-> "nil"]
    ELSE [idx |-> ix, err |-> "conflict"]

\* ------------------------------------------------------------------ state

NoIndexArg == [Collection |-> "", Field |-> "", Unique |-> FALSE, Sparse |-> FALSE]

\* The record of a method call: the arguments the method takes (coll, filter,
\* doc, data, name, models, flag, index list), what it returns (err, with the
\* index and the cause an index error names; resp, the decoded documents;
\* the counts of an update result; the positions a bulk write applied and
\* refused), the driver calls it issued, in order, with the ordered option
\* sent, and the number of documents the collection held when it began.
NoCall ==
    [op |-> "none", coll |-> "", filter |-> AllFilter, doc |-> NoDoc, data |-> <<>>,
     name |-> "", models |-> <<>>, stopAfterFail |-> FALSE, idxs |-> <<>>,
     err |-> "nil", errIndex |-> NoIndexArg, cause |-> "",
     resp |-> <<>>, hasResult |-> FALSE, matched |-> 0, modified |-> 0,
     applied |-> {}, failed |-> {}, ordered |-> FALSE,
     calls |-> <<>>, had |-> 0]

Init ==
    /\ docs = [c \in Colls |-> <<>>]
    /\ indexes = [c \in Colls |-> [f \in Fields |-> NoIndex]]
    /\ cursors = 0
    /\ last = NoCall

\* ------------------------------------------------------------------ methods

\* func (db *DB) InsertItem(collection, item) error
InsertItem(collection, item, fault) ==
    LET r == DrvInsertOne(docs[collection], indexes[collection], item, fault) IN
    [docs |-> [docs EXCEPT ![collection] = r.docs], err |-> r.err,
     calls |-> <<Call("InsertOne", r.err)>>]

CallInsertItem ==
    \E c \in Colls, d \in Docs, fault \in BOOLEAN :
        \E r \in {InsertItem(c, d, fault)} :
        /\ docs' = r.docs
        /\ last' = [NoCall EXCEPT !.op = "InsertItem", !.coll = c, !.had = Len(docs[c]),
                                  !.doc = d,
                                  !.err = r.err, !.calls = r.calls]
        /\ UNCHANGED <<indexes, cursors>>

\* func (db *DB) GetItem(collection, filter, response, opts...) error
GetItem(collection, filter, fault, fits) ==
    LET r == DrvFindOne(docs[collection], filter, fault, fits) IN
    [err |-> r.err, resp |-> IF r.err = "nil" THEN <<r.doc>> ELSE <<>>,
     calls |-> <<Call("FindOne", r.err)>>]

CallGetItem ==
    \E c \in Colls, f \in Filters, fault \in BOOLEAN, fits \in BOOLEAN :
        \E r \in {GetItem(c, f, fault, fits)} :
        /\ last' = [NoCall EXCEPT !.op = "GetItem", !.coll = c, !.had = Len(docs[c]),
                                  !.filter = f,
                                  !.err = r.err, !.resp = r.resp, !.calls = r.calls]
        /\ UNCHANGED <<docs, indexes, cursors>>

\* GetItems closing the cursor only after All has succeeded (no defer).
GetItemsClosesOnSuccessOnly(collection, filter, fault, fits) ==
    LET found == DrvFind(docs[collection], filter, fault)
        opened == cursors + 1
        all == DrvAll(found.batch, fits)
    IN  IF found.err # "nil"
        THEN [err |-> found.err, resp |-> <<>>, cursors |-> cursors,
              calls |-> <<Call("Find", found.err)>>]
        ELSE IF all.err # "nil"
        THEN [err |-> all.err, resp |-> <<>>, cursors |-> opened,
              calls |-> <<Call("Find", "nil"), Call("All", all.err)>>]
        ELSE [err |-> "nil", resp |-> all.resp, cursors |-> DrvClose(opened),
              calls |-> <<Call("Find", "nil"), Call("All", "nil"), Call("Close", "nil")>>]

\* func (db *DB) GetItems(collection, filter, response, opts...) error
\*   cur, err := c.Find(...); if err != nil { return err }
\*   defer cur.Close(ctx); return cur.All(ctx, response)
GetItems(collection, filter, fault, fits) ==
    LET found == DrvFind(docs[collection], filter, fault)
        opened == cursors + 1
        all == DrvAll(found.batch, fits)
    IN  IF found.err # "nil"
        THEN [err |-> found.err, resp |-> <<>>, cursors |-> cursors,
              calls |-> <<Call("Find", found.err)>>]
        ELSE [err |-> all.err, resp |-> all.resp, cursors |-> DrvClose(opened),
              calls |-> <<Call("Find", "nil"), Call("All", all.err), Call("Close", "nil")>>]

CallGetItems ==
    \E c \in Colls, f \in Filters, fault \in BOOLEAN, fits \in BOOLEAN :
        \E r \in {GetItems(c, f, fault, fits)} :
        /\ cursors' = r.cursors
        /\ last' = [NoCall EXCEPT !.op = "GetItems", !.coll = c, !.had = Len(docs[c]),
                                  !.filter = f,
                                  !.err = r.err, !.resp = r.resp, !.calls = r.calls]
        /\ UNCHANGED <<docs, indexes>>

\* func (db *DB) InsertItems(collection, item []interface{}) error
InsertItems(collection, item, fault) ==
    LET r == DrvInsertMany(docs[collection], indexes[collection], item, fault) IN
    [docs |-> [docs EXCEPT ![collection] = r.docs], err |-> r.err,
     calls |-> <<Call("InsertMany", r.err)>>]

CallInsertItems ==
    \E c \in Colls, data \in SeqsUpTo(Docs, MaxBatch), fault \in BOOLEAN :
        \E r \in {InsertItems(c, data, fault)} :
        /\ docs' = r.docs
        /\ last' = [NoCall EXCEPT !.op = "InsertItems", !.coll = c, !.had = Len(docs[c]),
                                  !.data = data,
                                  !.err = r.err, !.calls = r.calls]
        /\ UNCHANGED <<indexes, cursors>>

\* func (db *DB) UpdateItem(collection, filter, item) error
UpdateItem(collection, filter, item, fault) ==
    LET r == DrvUpdateOne(docs[collection], indexes[collection], filter, item, fault) IN
    [docs |-> [docs EXCEPT ![collection] = r.docs], err |-> r.err,
     calls |-> <<Call("UpdateOne", r.err)>>]

CallUpdateItem ==
    \E c \in Colls, f \in Filters, n \in Names, fault \in BOOLEAN :
        \E r \in {UpdateItem(c, f, n, fault)} :
        /\ docs' = r.docs
        /\ last' = [NoCall EXCEPT !.op = "UpdateItem", !.coll = c, !.had = Len(docs[c]),
                                  !.filter = f,
                                  !.name = n, !.err = r.err, !.calls = r.calls]
        /\ UNCHANGED <<indexes, cursors>>

\* UpdateItems taking a filter that matches nothing for a failure.
UpdateItemsNoMatchIsError(collection, filter, item, fault) ==
    LET r == DrvUpdateMany(docs[collection], indexes[collection], filter, item, fault)
        err == IF r.err = "nil" /\ r.matched = 0 THEN "nodocs" ELSE r.err
    IN  [docs |-> [docs EXCEPT ![collection] = r.docs], err |-> err,
         hasResult |-> (err # "net"), matched |-> r.matched, modified |-> r.modified,
         calls |-> <<Call("UpdateMany", r.err)>>]

\* func (db *DB) UpdateItems(collection, filter, item) (*mongo.UpdateResult, error)
\* The driver returns no result with a connection error.
UpdateItems(collection, filter, item, fault) ==
    LET r == DrvUpdateMany(docs[collection], indexes[collection], filter, item, fault) IN
    [docs |-> [docs EXCEPT ![collection] = r.docs], err |-> r.err,
     hasResult |-> (r.err # "net"), matched |-> r.matched, modified |-> r.modified,
     calls |-> <<Call("UpdateMany", r.err)>>]

CallUpdateItems ==
    \E c \in Colls, f \in Filters, n \in Names, fault \in BOOLEAN :
        \E r \in {UpdateItems(c, f, n, fault)} :
        /\ docs' = r.docs
        /\ last' = [NoCall EXCEPT !.op = "UpdateItems", !.coll = c, !.had = Len(docs[c]),
                                  !.filter = f,
                                  !.name = n, !.err = r.err, !.hasResult = r.hasResult,
                                  !.matched = r.matched, !.modified = r.modified,
                                  !.calls = r.calls]
        /\ UNCHANGED <<indexes, cursors>>

\* UpsertItem without SetUpsert(true).
UpsertItemWithoutUpsert(collection, filter, item, fault) ==
    LET r == DrvReplaceOne(docs[collection], indexes[collection], filter, item, FALSE, fault) IN
    [docs |-> [docs EXCEPT ![collection] = r.docs], err |-> r.err,
     calls |-> <<Call("ReplaceOne", r.err)>>]

\* func (db *DB) UpsertItem(collection, filter, item) error
\*   replaceOpts.SetUpsert(true); c.ReplaceOne(ctx, filter, item, replaceOpts)
UpsertItem(collection, filter, item, fault) ==
    LET r == DrvReplaceOne(docs[collection], indexes[collection], filter, item, TRUE, fault) IN
    [docs |-> [docs EXCEPT ![collection] = r.docs], err |-> r.err,
     calls |-> <<Call("ReplaceOne", r.err)>>]

CallUpsertItem ==
    \E c \in Colls, f \in Filters, d \in Docs, fault \in BOOLEAN :
        \E r \in {UpsertItem(c, f, d, fault)} :
        /\ docs' = r.docs
        /\ last' = [NoCall EXCEPT !.op = "UpsertItem", !.coll = c, !.had = Len(docs[c]),
                                  !.filter = f,
                                  !.doc = d, !.err = r.err, !.calls = r.calls]
        /\ UNCHANGED <<indexes, cursors>>

\* DeleteItem passing bson.D{} for the filter.
DeleteItemIgnoresFilter(collection, filter, fault) ==
    LET r == DrvDeleteOne(docs[collection], AllFilter, fault) IN
    [docs |-> [docs EXCEPT ![collection] = r.docs], err |-> r.err,
     calls |-> <<Call("DeleteOne", r.err)>>]

\* func (db *DB) DeleteItem(collection, filter) error
DeleteItem(collection, filter, fault) ==
    LET r == DrvDeleteOne(docs[collection], filter, fault) IN
    [docs |-> [docs EXCEPT ![collection] = r.docs], err |-> r.err,
     calls |-> <<Call("DeleteOne", r.err)>>]

CallDeleteItem ==
    \E c \in Colls, f \in Filters, fault \in BOOLEAN :
        \E r \in {DeleteItem(c, f, fault)} :
        /\ docs' = r.docs
        /\ last' = [NoCall EXCEPT !.op = "DeleteItem", !.coll = c, !.had = Len(docs[c]),
                                  !.filter = f,
                                  !.err = r.err, !.calls = r.calls]
        /\ UNCHANGED <<indexes, cursors>>

\* func (db *DB) DeleteItems(collection, filter) error
DeleteItems(collection, filter, fault) ==
    LET r == DrvDeleteMany(docs[collection], filter, fault) IN
    [docs |-> [docs EXCEPT ![collection] = r.docs], err |-> r.err,
     calls |-> <<Call("DeleteMany", r.err)>>]

CallDeleteItems ==
    \E c \in Colls, f \in Filters, fault \in BOOLEAN :
        \E r \in {DeleteItems(c, f, fault)} :
        /\ docs' = r.docs
        /\ last' = [NoCall EXCEPT !.op = "DeleteItems", !.coll = c, !.had = Len(docs[c]),
                                  !.filter = f,
                                  !.err = r.err, !.calls = r.calls]
        /\ UNCHANGED <<indexes, cursors>>

\* ReplaceOne clearing the collection with DeleteOne.
ReplaceOneDeletesOne(collection, data, faultDelete, faultInsert) ==
    LET del == DrvDeleteOne(docs[collection], AllFilter, faultDelete)
        ins == DrvInsertOne(del.docs, indexes[collection], data, faultInsert)
    IN  IF del.err # "nil"
        THEN [docs |-> docs, err |-> del.err, calls |-> <<Call("DeleteMany", del.err)>>]
        ELSE [docs |-> [docs EXCEPT ![collection] = ins.docs], err |-> ins.err,
              calls |-> <<Call("DeleteMany", "nil"), Call("InsertOne", ins.err)>>]

\* ReplaceOne going on to the insert after a failed delete.
ReplaceOneIgnoresDeleteError(collection, data, faultDelete, faultInsert) ==
    LET del == DrvDeleteMany(docs[collection], AllFilter, faultDelete)
        ins == DrvInsertOne(del.docs, indexes[collection], data, faultInsert)
    IN  [docs |-> [docs EXCEPT ![collection] = ins.docs],
         err |-> IF ins.err # "nil" THEN ins.err ELSE del.err,
         calls |-> <<Call("DeleteMany", del.err), Call("InsertOne", ins.err)>>]

\* func (db *DB) ReplaceOne(collection, data) error
\*   DeleteItems(collection, bson.D{}), then InsertItem(collection, data);
\*   the first error is returned at once.
ReplaceOne(collection, data, faultDelete, faultInsert) ==
    LET del == DrvDeleteMany(docs[collection], AllFilter, faultDelete)
        ins == DrvInsertOne(del.docs, indexes[collection], data, faultInsert)
    IN  IF del.err # "nil"
        THEN [docs |-> docs, err |-> del.err, calls |-> <<Call("DeleteMany", del.err)>>]
        ELSE [docs |-> [docs EXCEPT ![collection] = ins.docs], err |-> ins.err,
              calls |-> <<Call("DeleteMany", "nil"), Call("InsertOne", ins.err)>>]

CallReplaceOne ==
    \E c \in Colls, d \in Docs, faultDelete \in BOOLEAN, faultInsert \in BOOLEAN :
        \E r \in {ReplaceOne(c, d, faultDelete, faultInsert)} :
        /\ docs' = r.docs
        /\ last' = [NoCall EXCEPT !.op = "ReplaceOne", !.coll = c, !.had = Len(docs[c]),
                                  !.doc = d,
                                  !.err = r.err, !.calls = r.calls]
        /\ UNCHANGED <<indexes, cursors>>

\* ReplaceAll without the test for an empty slice.
ReplaceAllWithoutEmptyTest(collection, data, faultDelete, faultInsert) ==
    LET del == DrvDeleteMany(docs[collection], AllFilter, faultDelete)
        ins == DrvInsertMany(del.docs, indexes[collection], data, faultInsert)
    IN  IF del.err # "nil"
        THEN [docs |-> docs, err |-> del.err, calls |-> <<Call("DeleteMany", del.err)>>]
        ELSE [docs |-> [docs EXCEPT ![collection] = ins.docs], err |-> ins.err,
              calls |-> <<Call("DeleteMany", "nil"), Call("InsertMany", ins.err)>>]

\* ReplaceAll putting the former documents back when the insert fails.
ReplaceAllRestores(collection, data, faultDelete, faultInsert) ==
    LET del == DrvDeleteMany(docs[collection], AllFilter, faultDelete)
        ins == DrvInsertMany(del.docs, indexes[collection], data, faultInsert)
    IN  IF Len(data) = 0
        THEN [docs |-> docs, err |-> "nil", calls |-> <<>>]
        ELSE IF del.err # "nil"
        THEN [docs |-> docs, err |-> del.err, calls |-> <<Call("DeleteMany", del.err)>>]
        ELSE [docs |-> IF ins.err # "nil" THEN docs ELSE [docs EXCEPT ![collection] = ins.docs],
              err |-> ins.err,
              calls |-> <<Call("DeleteMany", "nil"), Call("InsertMany", ins.err)>>]

\* func (db *DB) ReplaceAll(collection, data []interface{}) error
\*   nothing at all for an empty slice; else DeleteItems(collection, bson.D{}),
\*   then InsertItems(collection, data); the first error is returned at once.
ReplaceAll(collection, data, faultDelete, faultInsert) ==
    LET del == DrvDeleteMany(docs[collection], AllFilter, faultDelete)
        ins == DrvInsertMany(del.docs, indexes[collection], data, faultInsert)
    IN  IF Len(data) = 0
        THEN [docs |-> docs, err |-> "nil", calls |-> <<>>]
        ELSE IF del.err # "nil"
        THEN [docs |-> docs, err |-> del.err, calls |-> <<Call("DeleteMany", del.err)>>]
        ELSE [docs |-> [docs EXCEPT ![collection] = ins.docs], err |-> ins.err,
              calls |-> <<Call("DeleteMany", "nil"), Call("InsertMany", ins.err)>>]

CallReplaceAll ==
    \E c \in Colls, data \in SeqsUpTo(Docs, MaxBatch),
       faultDelete \in BOOLEAN, faultInsert \in BOOLEAN :
        \E r \in {ReplaceAll(c, data, faultDelete, faultInsert)} :
        /\ docs' = r.docs
        /\ last' = [NoCall EXCEPT !.op = "ReplaceAll", !.coll = c, !.had = Len(docs[c]),
                                  !.data = data,
                                  !.err = r.err, !.calls = r.calls]
        /\ UNCHANGED <<indexes, cursors>>

\* BulkWrite leaving the ordered option at the driver's default (true).
BulkWriteDefaultOrdered(collection, data, stopAfterFail, fault) ==
    LET opts == [ordered |-> TRUE]
        r == DrvBulkWrite(docs[collection], indexes[collection], data, opts.ordered, fault)
    IN  [docs |-> [docs EXCEPT ![collection] = r.docs], err |-> r.err,
         applied |-> r.applied, failed |-> r.failed, ordered |-> opts.ordered,
         calls |-> <<Call("BulkWrite", r.err)>>]

\* func (db *DB) BulkWrite(collection, data, stopAfterFail) (*mongo.BulkWriteResult, error)
\*   opts.SetOrdered(stopAfterFail); c.BulkWrite(ctx, data, opts)
BulkWrite(collection, data, stopAfterFail, fault) ==
    LET opts == [ordered |-> stopAfterFail]
        r == DrvBulkWrite(docs[collection], indexes[collection], data, opts.ordered, fault)
    IN  [docs |-> [docs EXCEPT ![collection] = r.docs], err |-> r.err,
         applied |-> r.applied, failed |-> r.failed, ordered |-> opts.ordered,
         calls |-> <<Call("BulkWrite", r.err)>>]

CallBulkWrite ==
    \E c \in Colls, data \in SeqsUpTo(Models, MaxBatch),
       stopAfterFail \in BOOLEAN, fault \in BOOLEAN :
        \E r \in {BulkWrite(c, data, stopAfterFail, fault)} :
        /\ docs' = r.docs
        /\ last' = [NoCall EXCEPT !.op = "BulkWrite", !.coll = c, !.had = Len(docs[c]),
                                  !.models = data, !.stopAfterFail = stopAfterFail,
                                  !.err = r.err, !.applied = r.applied,
                                  !.failed = r.failed, !.ordered = r.ordered,
                                  !.calls = r.calls]
        /\ UNCHANGED <<indexes, cursors>>

\* func (db *DB) CreateIndices(indexes []Index) error
\*   one CreateOne per index, in order; the first error is returned at once,
\*   wrapped with the index it came from.  faultAt is the position of the
\*   call that meets a connection error (0: none).
RECURSIVE CreateFrom(_, _, _, _, _)
CreateFrom(idx, idxs, i, faultAt, calls) ==
    IF i > Len(idxs)
    THEN [idx |-> idx, err |-> "nil", errIndex |-> NoIndexArg, cause |-> "", calls |-> calls]
    ELSE LET index == idxs[i]
             r == DrvCreateOne(docs[index.Collection], idx[index.Collection], index.Field,
                               index.Unique, index.Sparse, i = faultAt)
         IN  IF r.err # "nil"
             THEN [idx |-> idx, err |-> "index", errIndex |-> index, cause |-> r.err,
                   calls |-> Append(calls, Call("CreateOne", r.err))]
             ELSE CreateFrom([idx EXCEPT ![index.Collection] = r.idx], idxs, i + 1, faultAt,
                             Append(calls, Call("CreateOne", "nil")))

\* CreateIndices going on after an error of CreateOne and returning nil.
RECURSIVE CreateFromSwallowing(_, _, _, _, _)
CreateFromSwallowing(idx, idxs, i, faultAt, calls) ==
    IF i > Len(idxs)
    THEN [idx |-> idx, err |-> "nil", errIndex |-> NoIndexArg, cause |-> "", calls |-> calls]
    ELSE LET index == idxs[i]
             r == DrvCreateOne(docs[index.Collection], idx[index.Collection], index.Field,
                               index.Unique, index.Sparse, i = faultAt)
         IN  CreateFromSwallowing([idx EXCEPT ![index.Collection] = r.idx], idxs, i + 1,
                                  faultAt, Append(calls, Call("CreateOne", r.err)))

CreateIndicesSwallowsError(idxs, faultAt) ==
    CreateFromSwallowing(indexes, idxs, 1, faultAt, <<>>)

CreateIndices(idxs, faultAt) == CreateFrom(indexes, idxs, 1, faultAt, <<>>)

\* func (db *DB) CreateIndex(index Index) error
CreateIndex(index, faultAt) == CreateIndices(<<index>>, faultAt)

CallCreateIndex ==
    \E index \in Index, faultAt \in 0..1 :
        \E r \in {CreateIndex(index, faultAt)} :
        /\ indexes' = r.idx
        /\ last' = [NoCall EXCEPT !.op = "CreateIndex", !.coll = index.Collection,
                                  !.had = Len(docs[index.Collection]),
                                  !.idxs = <<index>>, !.err = r.err,
                                  !.errIndex = r.errIndex, !.cause = r.cause,
                                  !.calls = r.calls]
        /\ UNCHANGED <<docs, cursors>>

CallCreateIndices ==
    \E idxs \in SeqsUpTo(Index, MaxBatch) : \E faultAt \in 0..Len(idxs) :
        \E r \in {CreateIndices(idxs, faultAt)} :
        /\ indexes' = r.idx
        /\ last' = [NoCall EXCEPT !.op = "CreateIndices", !.idxs = idxs, !.err = r.err,
                                  !.errIndex = r.errIndex, !.cause = r.cause,
                                  !.calls = r.calls]
        /\ UNCHANGED <<docs, cursors>>

Next ==
    \/ CallGetItem
    \/ CallGetItems
    \/ CallInsertItem
    \/ CallInsertItems
    \/ CallUpdateItem
    \/ CallUpdateItems
    \/ CallUpsertItem
    \/ CallDeleteItem
    \/ CallDeleteItems
    \/ CallReplaceOne
    \/ CallReplaceAll
    \/ CallBulkWrite
    \/ CallCreateIndex
    \/ CallCreateIndices

Spec == Init /\ [][Next]_vars

\* The methods of the full replacements, with the insert that fills the collection.
NextReplace ==
    \/ CallInsertItem
    \/ CallGetItems
    \/ CallReplaceOne
    \/ CallReplaceAll

SpecReplace == Init /\ [][NextReplace]_vars

\* The bulk write, with the insert that fills the collection.
NextBulk ==
    \/ CallInsertItem
    \/ CallBulkWrite

SpecBulk == Init /\ [][NextBulk]_vars

\* The updates and the upsert, on a collection with or without a unique index.
NextUpdate ==
    \/ CallInsertItem
    \/ CallCreateIndex
    \/ CallUpdateItem
    \/ CallUpdateItems
    \/ CallUpsertItem

SpecUpdate == Init /\ [][NextUpdate]_vars

\* The index methods, on a collection with documents.
NextIndex ==
    \/ CallInsertItem
    \/ CallCreateIndex
    \/ CallCreateIndices

SpecIndex == Init /\ [][NextIndex]_vars

\* The reads, inserts and deletes, on a collection with or without a unique index.
NextCrud ==
    \/ CallGetItem
    \/ CallGetItems
    \/ CallInsertItem
    \/ CallInsertItems
    \/ CallDeleteItem
    \/ CallDeleteItems
    \/ CallCreateIndex

SpecCrud == Init /\ [][NextCrud]_vars

\* ------------------------------------------------------------------ claims

\* C1: ReplaceAll called with an empty slice does nothing: it issues no
\* delete and no insert, returns nil, and the collection (its documents and
\* its indexes) is after the call what it was before, whatever it held.
EmptyReplaceAllIsNoOp ==
    [][(last'.op = "ReplaceAll" /\ last'.data = <<>>)
        => /\ last'.calls = <<>>
           /\ last'.err = "nil"
           /\ docs' = docs
           /\ indexes' = indexes]_vars

\* An empty ReplaceAll has returned on a collection that held documents, and
\* still holds as many.
EmptyReplaceAllOnDocuments ==
    /\ last.op = "ReplaceAll"
    /\ last.data = <<>>
    /\ last.had > 0
    /\ Len(docs[last.coll]) = last.had

\* C2: once ReplaceOne(c, d) has returned nil, GetItems(c, bson.D{}) succeeds
\* for a fitting target, and every GetItems(c, bson.D{}) that returns nil
\* decodes exactly the one document d.
ReplaceOneThenGetItems ==
    (last.op = "ReplaceOne" /\ last.err = "nil") =>
        /\ GetItems(last.coll, AllFilter, FALSE, TRUE).err = "nil"
        /\ \A fault \in BOOLEAN, fits \in BOOLEAN :
              GetItems(last.coll, AllFilter, fault, fits).err = "nil"
                  => GetItems(last.coll, AllFilter, fault, fits).resp = <<last.doc>>

\* ReplaceOne has returned nil on a collection that held more than one
\* document, and GetItems now returns the new one alone.
ReplaceOneOverDocuments ==
    /\ last.op = "ReplaceOne"
    /\ last.err = "nil"
    /\ last.had > 1
    /\ GetItems(last.coll, AllFilter, FALSE, TRUE).resp = <<last.doc>>

\* The delete step of ReplaceOne or ReplaceAll succeeded and its insert step failed.
InsertFailedAfterDelete ==
    /\ last.op \in {"ReplaceOne", "ReplaceAll"}
    /\ Len(last.calls) = 2
    /\ last.calls[1] = Call("DeleteMany", "nil")
    /\ last.calls[2].err # "nil"

\* C3, as claimed: when the delete step succeeds and the insert step fails,
\* the call returns the insert's error and the collection is left empty.
FailedInsertLeavesEmpty ==
    InsertFailedAfterDelete =>
        /\ last.err = last.calls[2].err
        /\ docs[last.coll] = <<>>

\* C3, amended: when the delete step succeeds and the insert step fails, the
\* call returns the insert's error and nothing is put back: ReplaceOne leaves
\* the collection empty, ReplaceAll leaves in it the new documents that come
\* before the first one the datastore refused (none of them when the insert
\* failed as a whole), and never all of them.
FailedInsertLeavesPrefix ==
    InsertFailedAfterDelete =>
        /\ last.err = last.calls[2].err
        /\ IF last.op = "ReplaceOne"
           THEN docs[last.coll] = <<>>
           ELSE \E k \in 0..(Len(last.data) - 1) :
                    docs[last.coll] = SubSeq(last.data, 1, k)

\* The insert step of ReplaceAll has failed on a collection that held
\* documents, after the first new document was inserted.
FailedInsertKeptPrefix ==
    /\ InsertFailedAfterDelete
    /\ last.op = "ReplaceAll"
    /\ last.had > 0
    /\ docs[last.coll] = <<last.data[1]>>

\* C4: BulkWrite passes stopAfterFail to the driver as the ordered option.
\* With stopAfterFail the batch is applied in the order given up to the first
\* operation that fails, and no operation after that one is applied; without
\* it every operation of a batch the driver took is either applied or
\* reported failed, whatever failed before it.  An insert that was applied
\* and that no delete of the batch matches is in the collection.
BulkWriteStopsAsAsked ==
    last.op = "BulkWrite" =>
        /\ last.ordered = last.stopAfterFail
        /\ last.applied \cap last.failed = {}
        /\ (last.stopAfterFail /\ last.failed # {} =>
                \E k \in 1..Len(last.models) :
                    last.failed = {k} /\ last.applied = 1..(k - 1))
        /\ (last.stopAfterFail /\ last.err = "nil" =>
                last.applied = 1..Len(last.models))
        /\ (~last.stopAfterFail /\ last.err \notin {"net", "empty"} =>
                last.applied \cup last.failed = 1..Len(last.models))
        /\ \A i \in last.applied :
                (/\ last.models[i].kind = "insert"
                 /\ \A j \in 1..Len(last.models) :
                        last.models[j].kind = "delete"
                            => ~Matches(last.models[j].filter, last.models[i].doc))
                => last.models[i].doc \in Range(docs[last.coll])

\* An ordered batch has stopped at its first operation: the insert that
\* follows, of a document the collection could take, was not applied.
BulkWriteStoppedEarly ==
    /\ last.op = "BulkWrite"
    /\ last.stopAfterFail
    /\ last.failed = {1}
    /\ Len(last.models) > 1
    /\ last.models[2].kind = "insert"
    /\ ~Duplicate(docs[last.coll], indexes[last.coll], last.models[2].doc, 0)

CreateIndexTwice ==
    (last.op = "CreateIndex" /\ last.err = "nil") =>
        /\ CreateIndex(last.idxs[1], 0).err = "nil"
        /\ CreateIndex(last.idxs[1], 0).idx = indexes
        /\ \A other \in {[last.idxs[1] EXCEPT !.Unique = ~last.idxs[1].Unique]} :
              /\ CreateIndex(other, 0).err = "index"
              /\ CreateIndex(other, 0).cause = "conflict"
              /\ CreateIndex(other, 0).errIndex = other
              /\ CreateIndex(other, 0).idx = indexes

\* CreateIndex has returned nil for a unique index on a collection that
\* holds documents, and the index is there with the options asked for.
UniqueIndexCreated ==
    /\ last.op = "CreateIndex"
    /\ last.err = "nil"
    /\ last.idxs[1].Unique
    /\ last.had > 0
    /\ indexes[last.coll][last.idxs[1].Field] = IndexOpts(TRUE, last.idxs[1].Sparse)

\* C8: once InsertItem(c, d) has returned nil, GetItem(c, {_id: d._id})
\* decodes a document equal to d; once DeleteItem(c, {_id: i}) has returned
\* nil, GetItem with that filter fails with the not-found error.
InsertGetDeleteRoundTrip ==
    /\ (last.op = "InsertItem" /\ last.err = "nil") =>
            /\ GetItem(last.coll, ById(last.doc.id), FALSE, TRUE).err = "nil"
            /\ GetItem(last.coll, ById(last.doc.id), FALSE, TRUE).resp = <<last.doc>>
    /\ (last.op = "DeleteItem" /\ last.err = "nil" /\ last.filter.kind = "id") =>
            \A fits \in BOOLEAN :
                GetItem(last.coll, last.filter, FALSE, fits).err = "nodocs"

\* DeleteItem by _id has removed one document of a collection that held
\* several, and GetItem with the same filter finds none.
DeletedThenNotFound ==
    /\ last.op = "DeleteItem"
    /\ last.err = "nil"
    /\ last.filter.kind = "id"
    /\ last.had > 1
    /\ Len(docs[last.coll]) = last.had - 1
    /\ GetItem(last.coll, last.filter, FALSE, TRUE).err = "nodocs"

\* C9: no cursor is open once a method has returned.  GetItems calls Find
\* first; when Find fails it returns that error and there is no cursor; when
\* Find returns a cursor, GetItems calls All and then Close, whether All
\* succeeded or not, and returns what All returned.
GetItemsReleasesCursor ==
    /\ cursors = 0
    /\ last.op = "GetItems" =>
            /\ last.calls[1].fn = "Find"
            /\ IF last.calls[1].err = "nil"
               THEN /\ Len(last.calls) = 3
                    /\ last.calls[2].fn = "All"
                    /\ last.calls[3] = Call("Close", "nil")
                    /\ last.err = last.calls[2].err
               ELSE /\ Len(last.calls) = 1
                    /\ last.err = last.calls[1].err

\* GetItems has returned a decoding error on a collection that holds
\* documents, and has closed the cursor.
GetItemsDecodeFailed ==
    /\ last.op = "GetItems"
    /\ last.err = "decode"
    /\ last.had > 0
    /\ Len(last.calls) = 3
    /\ last.calls[3].fn = "Close"
    /\ cursors = 0

\* C10: in ReplaceOne and in ReplaceAll with a non-empty slice the first
\* driver call is the delete.  When it fails it is the only call, its error
\* is returned and the collection is unchanged; the insert is issued only
\* after a delete that returned nil, and nothing is called a second time.
FailedDeleteStopsReplace ==
    [][(last'.op \in {"ReplaceOne", "ReplaceAll"} /\ last'.calls # <<>>)
        => /\ last'.calls[1].fn = "DeleteMany"
           /\ (last'.calls[1].err # "nil" =>
                /\ Len(last'.calls) = 1
                /\ last'.err = last'.calls[1].err
                /\ docs' = docs)
           /\ Len(last'.calls) <= 2
           /\ (Len(last'.calls) = 2 =>
                /\ last'.calls[1].err = "nil"
                /\ last'.calls[2].fn \in {"InsertOne", "InsertMany"})]_vars

\* The delete step of ReplaceOne has failed on a collection that held
\* documents, and holds them still.
ReplaceOneDeleteFailed ==
    /\ last.op = "ReplaceOne"
    /\ last.calls = <<Call("DeleteMany", "net")>>
    /\ last.err = "net"
    /\ last.had > 0
    /\ Len(docs[last.coll]) = last.had
====
